---- MODULE Spec2Model ----
(***************************************************************************)
(* The TCP reverse proxy of ev-gor/tcp-reverse-proxy as a state machine:   *)
(* Proxy.Run (accept loop and listener watcher), handle (one session),     *)
(* readAndWrite (one pump per direction, each with its watcher), the       *)
(* sync.Pool of buffers, the sync.WaitGroup and the two levels of          *)
(* context cancellation.  Peers (client, backend) are the environment.     *)
(***************************************************************************)
EXTENDS Integers, Sequences, FiniteSets, TLC

\* ---------------------------------------------------------------- bounds
MaxSessions == 2        \* connections the environment makes to the listener
MaxPayload == 3         \* bytes a peer sends in one direction
MaxAcceptErrors == 1    \* transient (non-closure) accept failures
MaxOptions == 2         \* options given to CreateProxy
MaxBufferSize == 2      \* largest buffer size an option carries

\* ------------------------------------------------------- program constants
KiB == 1024
bufferSizeDefault == 32
TestBufLen == 2         \* the pool of the pump tests, scaled: make([]byte, 1024) against 5000 bytes

Sessions == 1..MaxSessions
Dirs == {"c2b", "b2c"}
Sides == {"client", "backend"}

\* readAndWrite(ctx, connToRead, connToWrite, ...): the two calls of handle
Src(d) == IF d = "c2b" THEN "client" ELSE "backend"
Dst(d) == IF d = "c2b" THEN "backend" ELSE "client"

\* the bytes a peer sends: 1, 2, 3, ... so that loss, duplication and reordering show
Payload(n) == [i \in 1..n |-> i]

Min(a, b) == IF a < b THEN a ELSE b

VARIABLES
  scen,       \* the run's inputs: connections made, payload lengths, pool.New length,
              \* kind of the client conn, sessions whose peers act, transient accept errors
  rootCtx,    \* TRUE once the root context is cancelled
  listener,   \* "none" | "open" | "closed"
  runPc,      \* Run: "create" | "accept" | "done"
  runResult,  \* "none" | "nil" | "err"
  runErr,     \* the error Run returned, outermost message first; <<>> if none
  listenIn,   \* what listenerFactory was called with
  lwPc,       \* listener watcher: "idle" | "wait" | "done"
  wg,         \* the WaitGroup counter
  nAccepted,  \* connections Accept has returned
  nAcceptErr, \* transient accept errors so far
  hpc,        \* handle: "idle" | "dial" | "wait" | "done"
  connCtx,    \* TRUE once cancelConn was called
  conn,       \* conn[s][side]: "none" | "open" | "wshut" | "rshut" | "closed"
  peer,       \* peer[s][side]: "open" | "fin"
  sent,       \* sent[s][d]: bytes the source peer has written
  taken,      \* taken[s][d]: bytes Read has returned
  ppc,        \* pump: "idle" | "get" | "read" | "write" | "done" | "panic"
  pExit,      \* why the pump returned: "none" | "eos" | "closed" | "ioerr"
  buf,        \* buf[s][d]: the buffer the pump holds, [id, len] or NoBuf
  chunk,      \* buf[0:n] of the current chunk
  written,    \* the partial-write counter
  delivered,  \* bytes Write has accepted on the destination
  wpc,        \* pump watcher: "idle" | "wait" | "done"
  pool,       \* items in the sync.Pool
  nextBuf,    \* buffers allocated by pool.New so far
  gets,       \* gets[s][d]: pool.Get calls of the pump
  puts,       \* puts[s][d]: pool.Put calls of the pump
  crashed,    \* TRUE once a goroutine panicked: the process is gone
  options,    \* CreateProxy(options...): the options given, in order
  cfg,        \* CreateProxy: the config under construction
  optIx,      \* CreateProxy: options applied so far
  cpPc,       \* CreateProxy: "apply" | "done"
  proxyOut,   \* CreateProxy: the *Proxy returned (NilProxy until then and on error)
  cpErr       \* CreateProxy: the error returned, outermost message first

vars == <<scen, rootCtx, listener, runPc, runResult, runErr, listenIn, lwPc, wg, nAccepted, nAcceptErr,
          hpc, connCtx, conn, peer, sent, taken, ppc, pExit, buf, chunk, written,
          delivered, wpc, pool, nextBuf, gets, puts, crashed,
          options, cfg, optIx, cpPc, proxyOut, cpErr>>

createVars == <<options, cfg, optIx, cpPc, proxyOut, cpErr>>

\* ------------------------------------------------------------ config
\* strings the code parses are sequences: an address is <<host, ":", port>>, a
\* number read from the environment is a sequence of characters
listenAddrDefault == <<"127.0.0.1", ":", "8080">>
backendAddrDefault == <<"127.0.0.1", ":", "9000">>
tlsEnabledDefault == FALSE

\* cfg := config{...} of CreateProxy
DefaultConfig ==
  [listenAddr |-> listenAddrDefault, backendAddr |-> backendAddrDefault,
   bufferSize |-> bufferSizeDefault, tlsEnabled |-> tlsEnabledDefault,
   certFilePath |-> "", keyFilePath |-> ""]

\* what an Option leaves behind: the config as far as it was changed, and its error
Ok(c) == [cfg |-> c, err |-> <<>>]
Fail(c, e) == [cfg |-> c, err |-> e]
\* fmt.Errorf(msg + ": %w", err)
Wrap(msg, r) == IF r.err = <<>> THEN r ELSE [r EXCEPT !.err = <<msg>> \o @]

\* net.SplitHostPort: host and port around the last colon
RECURSIVE LastColon(_, _)
LastColon(a, i) == IF i = 0 THEN 0 ELSE IF a[i] = ":" THEN i ELSE LastColon(a, i - 1)

parseAddress(addr) ==
  LET i == LastColon(addr, Len(addr)) IN
  IF i = 0
  THEN [host |-> <<>>, port |-> <<>>, err |-> <<"split host port", "missing port in address">>]
  ELSE [host |-> SubSeq(addr, 1, i - 1), port |-> SubSeq(addr, i + 1, Len(addr)), err |-> <<>>]

JoinHostPort(host, port) == host \o <<":">> \o port

WithListenAddr(addr, c) ==
  LET r == parseAddress(addr) IN
  IF r.err # <<>> THEN Fail(c, <<"parse address">> \o r.err)
  ELSE Ok([c EXCEPT !.listenAddr = JoinHostPort(r.host, r.port)])

WithBackendAddr(addr, c) ==
  LET r == parseAddress(addr) IN
  IF r.err # <<>> THEN Fail(c, <<"parse address">> \o r.err)
  ELSE Ok([c EXCEPT !.backendAddr = JoinHostPort(r.host, r.port)])

\* faulty variant: any size is stored
WithBufferSizeUnchecked(size, c) == Ok([c EXCEPT !.bufferSize = size])

WithBufferSize(size, c) ==
  IF size <= 0 THEN Fail(c, <<"buffer size must be positive">>)
  ELSE Ok([c EXCEPT !.bufferSize = size])

WithTlSEnabled(enabled, c) == Ok([c EXCEPT !.tlsEnabled = enabled])

\* the files os.Stat finds
ExistingFiles == {"cert.pem", "key.pem"}

WithCertFilePath(path, c) ==
  IF path \notin ExistingFiles THEN Fail(c, <<"cert file path", "no such file or directory">>)
  ELSE Ok([c EXCEPT !.certFilePath = path])

WithKeyFilePath(path, c) ==
  IF path \notin ExistingFiles THEN Fail(c, <<"key file path", "no such file or directory">>)
  ELSE Ok([c EXCEPT !.keyFilePath = path])

\* strconv.Atoi: an optional sign, then one or more decimal digits
DigitVal == [ch \in {"0", "1", "2", "3", "4", "5", "6", "7", "8", "9"} |->
               CASE ch = "0" -> 0 [] ch = "1" -> 1 [] ch = "2" -> 2 [] ch = "3" -> 3
                 [] ch = "4" -> 4 [] ch = "5" -> 5 [] ch = "6" -> 6 [] ch = "7" -> 7
                 [] ch = "8" -> 8 [] ch = "9" -> 9]

RECURSIVE ParseDigits(_, _)
ParseDigits(s, acc) ==
  IF s = <<>> THEN acc ELSE ParseDigits(Tail(s), 10 * acc + DigitVal[Head(s)])

Atoi(s) ==
  LET signed == s # <<>> /\ Head(s) \in {"-", "+"}
      body == IF signed THEN Tail(s) ELSE s
  IN IF body = <<>> \/ \E i \in 1..Len(body) : body[i] \notin DOMAIN DigitVal
     THEN [n |-> 0, err |-> <<"strconv.Atoi: invalid syntax">>]
     ELSE [n |-> IF signed /\ Head(s) = "-" THEN 0 - ParseDigits(body, 0)
                 ELSE ParseDigits(body, 0),
           err |-> <<>>]

\* FromEnv(prefix): e holds, for each variable, whether os.LookupEnv finds it and
\* its value
FromEnv(e, c) ==
  LET listen == IF e.listen.set
                THEN Wrap("apply option", WithListenAddr(e.listen.v, c)) ELSE Ok(c)
      backend(c1) == IF e.backend.set
                     THEN Wrap("apply option", WithBackendAddr(e.backend.v, c1)) ELSE Ok(c1)
      size(c2) ==
        IF ~e.buf.set THEN Ok(c2)
        ELSE LET a == Atoi(e.buf.v) IN
             IF a.err # <<>> THEN Fail(c2, <<"buffer size">> \o a.err)
             ELSE IF a.n <= 0 THEN Fail(c2, <<"buffer size must be positive">>)
             ELSE Ok([c2 EXCEPT !.bufferSize = a.n])
      tls(c3) == IF e.tls.set THEN WithTlSEnabled(e.tls.v = "true", c3) ELSE Ok(c3)
      cert(c4) == IF e.cert.set
                  THEN Wrap("apply option", WithCertFilePath(e.cert.v, c4)) ELSE Ok(c4)
      key(c5) == IF e.key.set
                 THEN Wrap("apply option", WithKeyFilePath(e.key.v, c5)) ELSE Ok(c5)
      r2 == IF listen.err # <<>> THEN listen ELSE backend(listen.cfg)
      r3 == IF r2.err # <<>> THEN r2 ELSE size(r2.cfg)
      r4 == IF r3.err # <<>> THEN r3 ELSE tls(r3.cfg)
      r5 == IF r4.err # <<>> THEN r4 ELSE cert(r4.cfg)
  IN IF r5.err # <<>> THEN r5 ELSE key(r5.cfg)

\* json.Unmarshal(b, &raw): a member the document lacks leaves the zero value
Unmarshal(doc) ==
  IF doc.kind = "invalid"
  THEN [err |-> <<"parse json config", "invalid character">>,
        raw |-> [ListenAddr |-> <<>>, BackendAddr |-> <<>>, BufferSize |-> 0,
                 TlSEnabled |-> FALSE, CertFilePath |-> "", KeyFilePath |-> ""]]
  ELSE [err |-> <<>>,
        raw |-> [ListenAddr |-> IF doc.listen_addr.has THEN doc.listen_addr.v ELSE <<>>,
                 BackendAddr |-> IF doc.backend_addr.has THEN doc.backend_addr.v ELSE <<>>,
                 BufferSize |-> IF doc.buffer_size.has THEN doc.buffer_size.v ELSE 0,
                 TlSEnabled |-> IF doc.tls_enabled.has THEN doc.tls_enabled.v ELSE FALSE,
                 CertFilePath |-> IF doc.cert_file_path.has THEN doc.cert_file_path.v ELSE "",
                 KeyFilePath |-> IF doc.key_file_path.has THEN doc.key_file_path.v ELSE ""]]

\* the fields of a raw config applied in the order of the code
ApplyRaw(raw, c) ==
  LET listen == IF raw.ListenAddr # <<>> THEN WithListenAddr(raw.ListenAddr, c) ELSE Ok(c)
      backend(c1) == IF raw.BackendAddr # <<>> THEN WithBackendAddr(raw.BackendAddr, c1)
                     ELSE Ok(c1)
      size(c2) == IF raw.BufferSize # 0 THEN WithBufferSize(raw.BufferSize, c2) ELSE Ok(c2)
      tls(c3) == IF raw.TlSEnabled THEN WithTlSEnabled(raw.TlSEnabled, c3) ELSE Ok(c3)
      cert(c4) == IF raw.CertFilePath # "" THEN WithCertFilePath(raw.CertFilePath, c4)
                  ELSE Ok(c4)
      key(c5) == IF raw.KeyFilePath # "" THEN WithKeyFilePath(raw.KeyFilePath, c5) ELSE Ok(c5)
      r2 == IF listen.err # <<>> THEN listen ELSE backend(listen.cfg)
      r3 == IF r2.err # <<>> THEN r2 ELSE size(r2.cfg)
      r4 == IF r3.err # <<>> THEN r3 ELSE tls(r3.cfg)
      r5 == IF r4.err # <<>> THEN r4 ELSE cert(r4.cfg)
  IN IF r5.err # <<>> THEN r5 ELSE key(r5.cfg)

\* WithConfigJSON(b): no bytes, bytes that do not parse, or a JSON object
WithConfigJSON(doc, c) ==
  IF doc.kind = "empty" THEN Ok(c)
  ELSE LET u == Unmarshal(doc) IN
       IF u.err # <<>> THEN Fail(c, u.err) ELSE ApplyRaw(u.raw, c)

\* WithConfigFile(path): os.ReadFile, then WithConfigJSON
WithConfigFile(f, c) ==
  IF ~f.readable THEN Fail(c, <<"read config file", "no such file or directory">>)
  ELSE WithConfigJSON(f.doc, c)

\* WithFlags(): a flag the command line lacks has its default
WithFlags(fl, c) ==
  LET listenAddr == IF fl.listen.set THEN fl.listen.v ELSE listenAddrDefault
      backendAddr == IF fl.backend.set THEN fl.backend.v ELSE backendAddrDefault
      bufferSize == IF fl.buf.set THEN fl.buf.v ELSE bufferSizeDefault
      tlsEnabled == IF fl.tls.set THEN fl.tls.v ELSE tlsEnabledDefault
      certFilePath == IF fl.cert.set THEN fl.cert.v ELSE ""
      keyFilePath == IF fl.key.set THEN fl.key.v ELSE ""
      listen == IF listenAddr # <<>> THEN WithListenAddr(listenAddr, c) ELSE Ok(c)
      backend(c1) == IF backendAddr # <<>> THEN WithBackendAddr(backendAddr, c1) ELSE Ok(c1)
      size(c2) == IF bufferSize > 0 THEN Ok(WithBufferSize(bufferSize, c2).cfg) ELSE Ok(c2)
      tls(c3) == IF tlsEnabled THEN WithTlSEnabled(tlsEnabled, c3) ELSE Ok(c3)
      cert(c4) == IF certFilePath # "" THEN WithCertFilePath(certFilePath, c4) ELSE Ok(c4)
      key(c5) == IF keyFilePath # "" THEN WithKeyFilePath(keyFilePath, c5) ELSE Ok(c5)
      r2 == IF listen.err # <<>> THEN listen ELSE backend(listen.cfg)
      r3 == IF r2.err # <<>> THEN r2 ELSE size(r2.cfg)
      r4 == IF r3.err # <<>> THEN r3 ELSE tls(r3.cfg)
      r5 == IF r4.err # <<>> THEN r4 ELSE cert(r4.cfg)
  IN IF r5.err # <<>> THEN r5 ELSE key(r5.cfg)

\* opt(&cfg) for one option value
ApplyOption(o, c) ==
  CASE o.kind = "WithListenAddr" -> WithListenAddr(o.addr, c)
    [] o.kind = "WithBufferSize" -> WithBufferSize(o.size, c)
    [] o.kind = "WithTlSEnabled" -> WithTlSEnabled(o.enabled, c)
    [] o.kind = "WithCertFilePath" -> WithCertFilePath(o.path, c)
    [] o.kind = "WithKeyFilePath" -> WithKeyFilePath(o.path, c)
    [] o.kind = "FromEnv" -> FromEnv(o.env, c)
    [] o.kind = "WithConfigJSON" -> WithConfigJSON(o.doc, c)
    [] o.kind = "WithConfigFile" -> WithConfigFile(o.file, c)
    [] o.kind = "WithFlags" -> WithFlags(o.args, c)
    [] o.kind = "func" -> Fail(c, <<"invalid option">>)

NilProxy == [nil |-> TRUE]

\* &Proxy{config: cfg, bufPool: sync.Pool{New: ...}, listenerFactory: factory}
NewProxy(c) ==
  [nil |-> FALSE, config |-> c, newLen |-> KiB * c.bufferSize,
   factory |-> IF c.tlsEnabled THEN "tls" ELSE "tcp"]

NoBuf == [id |-> 0, len |-> 0]

\* ctx.Done() of the session's context: cancelled by cancelConn or by the parent
Done(s) == connCtx[s] \/ rootCtx

PerSD(v) == [s \in Sessions |-> [d \in Dirs |-> v]]

\* the zero config: no TLS, no paths (Run has not called the factory yet)
NoListenIn == [tls |-> FALSE, cert |-> "", key |-> "", pairOk |-> FALSE, addrFree |-> FALSE]

InitCommon ==
  /\ rootCtx = FALSE
  /\ listener = "none"
  /\ runPc = "create"
  /\ runResult = "none"
  /\ runErr = <<>>
  /\ listenIn = NoListenIn
  /\ lwPc = "idle"
  /\ wg = 1
  /\ nAccepted = 0
  /\ nAcceptErr = 0
  /\ hpc = [s \in Sessions |-> "idle"]
  /\ connCtx = [s \in Sessions |-> FALSE]
  /\ conn = [s \in Sessions |-> [x \in Sides |-> "none"]]
  /\ peer = [s \in Sessions |-> [x \in Sides |-> "open"]]
  /\ sent = PerSD(0)
  /\ taken = PerSD(0)
  /\ ppc = PerSD("idle")
  /\ pExit = PerSD("none")
  /\ buf = PerSD(NoBuf)
  /\ chunk = PerSD(<<>>)
  /\ written = PerSD(0)
  /\ delivered = PerSD(<<>>)
  /\ wpc = PerSD("idle")
  /\ pool = {}
  /\ nextBuf = 0
  /\ gets = PerSD(0)
  /\ puts = PerSD(0)
  /\ crashed = FALSE

\* one session over a non-TCP client conn (net.Pipe, *tls.Conn), a payload longer
\* than the buffers of the pool, a listener whose Accept may fail transiently
ScenPump == [sessions |-> 1, payload |-> [d \in Dirs |-> IF d = "c2b" THEN MaxPayload ELSE 1],
             newLen |-> TestBufLen, clientTCP |-> FALSE, active |-> {1}, flaky |-> TRUE]
\* a Proxy with the default configuration (plain TCP listener) and several clients;
\* the peers of the first session end their streams or fail, the others stay silent
ScenProxy == [sessions |-> MaxSessions, payload |-> [d \in Dirs |-> 0],
              newLen |-> KiB * bufferSizeDefault, clientTCP |-> TRUE, active |-> {1},
              flaky |-> FALSE]

listenVars == <<runErr, listenIn>>
runVars == <<listener, runPc, runResult, lwPc, nAccepted, nAcceptErr, listenVars>>
sessVars == <<hpc, connCtx, conn>>
envVars == <<peer, sent>>
dataVars == <<taken, chunk, written, delivered>>
pumpVars == <<ppc, pExit, buf, wpc>>
poolVars == <<pool, nextBuf, gets, puts>>
mainVars == <<scen, rootCtx, runVars, wg, sessVars, envVars, dataVars, pumpVars, poolVars, crashed>>

\* ------------------------------------------------------------ net.Conn
\* connToRead.(*net.TCPConn): the backend conn comes from a "tcp" dial, the client
\* conn from the listener
IsTCP(side) == side = "backend" \/ scen.clientTCP

Close(c) == IF c = "none" THEN "none" ELSE "closed"

CloseWrite(c) ==
  CASE c = "open" -> "wshut"
    [] c = "rshut" -> "rwshut"
    [] OTHER -> c

CloseRead(c) ==
  CASE c = "open" -> "rshut"
    [] c = "wshut" -> "rwshut"
    [] OTHER -> c

CanRead(c) == c \in {"open", "wshut"}
CanWrite(c) == c \in {"open", "rshut"}

\* bytes waiting in the receive queue of direction d
Avail(s, d) == sent[s][d] - taken[s][d]

\* ------------------------------------------------------ listener factories
\* what Run may find when it creates the listener: the certificate and key paths
\* of the config, whether the pair loads, whether the listen address is free.
\* A plain TCP proxy has no paths; a pair cannot load from an empty path.
\* A Proxy that CreateProxy made from options has the paths of its config.
ListenInputs ==
  IF options # <<>>
  THEN {[tls |-> proxyOut.config.tlsEnabled, cert |-> proxyOut.config.certFilePath,
         key |-> proxyOut.config.keyFilePath, pairOk |-> ok, addrFree |-> a] :
          ok \in IF proxyOut.config.certFilePath # "" /\ proxyOut.config.keyFilePath # ""
                 THEN BOOLEAN ELSE {FALSE},
          a \in BOOLEAN}
  ELSE IF scen.clientTCP
  THEN {[tls |-> FALSE, cert |-> "", key |-> "", pairOk |-> FALSE, addrFree |-> a] :
          a \in BOOLEAN}
  ELSE {c \in [tls : {TRUE}, cert : {"", "cert.pem"}, key : {"", "key.pem"},
               pairOk : BOOLEAN, addrFree : BOOLEAN] :
          c.pairOk => (c.cert # "" /\ c.key # "")}

\* net.Listen("tcp", config.listenAddr)
tcpListenerFactory(c) ==
  IF ~c.addrFree
  THEN [listener |-> "none", err |-> <<"listen error", "address already in use">>]
  ELSE [listener |-> "open", err |-> <<>>]

\* faulty variant: the address is bound before the paths and the pair are checked
tlsListenerFactoryBindFirst(c) ==
  IF ~c.addrFree
  THEN [listener |-> "none", err |-> <<"listen error", "address already in use">>]
  ELSE IF c.cert = "" \/ c.key = ""
  THEN [listener |-> "open", err |-> <<"cert file path or key file path is empty">>]
  ELSE IF ~c.pairOk
  THEN [listener |-> "open", err |-> <<"load x509 key pair", "tls: failed to load pair">>]
  ELSE [listener |-> "open", err |-> <<>>]

\* the path check, tls.LoadX509KeyPair, then tls.Listen
tlsListenerFactory(c) ==
  IF c.cert = "" \/ c.key = ""
  THEN [listener |-> "none", err |-> <<"cert file path or key file path is empty">>]
  ELSE IF ~c.pairOk
  THEN [listener |-> "none", err |-> <<"load x509 key pair", "tls: failed to load pair">>]
  ELSE IF ~c.addrFree
  THEN [listener |-> "none", err |-> <<"listen error", "address already in use">>]
  ELSE [listener |-> "open", err |-> <<>>]

\* CreateProxy: factory := tcpListenerFactory; if cfg.tlsEnabled, tlsListenerFactory
listenerFactory(c) == IF c.tls THEN tlsListenerFactory(c) ELSE tcpListenerFactory(c)

\* ------------------------------------------------------------ Proxy.Run
\* listenerFactory succeeded; the listener watcher is started
RunListen ==
  /\ ~crashed
  /\ runPc = "create"
  /\ cpPc = "done" /\ ~proxyOut.nil
  /\ \E c \in ListenInputs :
       /\ listenerFactory(c).err = <<>>
       /\ listenIn' = c
       /\ listener' = listenerFactory(c).listener
  /\ runPc' = "accept"
  /\ lwPc' = "wait"
  /\ wg' = wg + 1
  /\ UNCHANGED <<scen, createVars, rootCtx, runResult, runErr, nAccepted, nAcceptErr, sessVars, envVars,
                 dataVars, pumpVars, poolVars, crashed>>

\* faulty variant: Run returns the listen error without the deferred wg.Done()
RunListenFailNoDone ==
  /\ ~crashed
  /\ runPc = "create"
  /\ cpPc = "done" /\ ~proxyOut.nil
  /\ \E c \in ListenInputs :
       /\ listenerFactory(c).err # <<>>
       /\ listenIn' = c
       /\ listener' = listenerFactory(c).listener
       /\ runErr' = <<"create listener">> \o listenerFactory(c).err
  /\ runPc' = "done"
  /\ runResult' = "err"
  /\ UNCHANGED <<scen, createVars, rootCtx, lwPc, wg, nAccepted, nAcceptErr, sessVars,
                 envVars, dataVars, pumpVars, poolVars, crashed>>

\* listenerFactory failed: return fmt.Errorf("create listener: %w", listenerErr);
\* the deferred wg.Done() runs
RunListenFail ==
  /\ ~crashed
  /\ runPc = "create"
  /\ cpPc = "done" /\ ~proxyOut.nil
  /\ \E c \in ListenInputs :
       /\ listenerFactory(c).err # <<>>
       /\ listenIn' = c
       /\ listener' = listenerFactory(c).listener
       /\ runErr' = <<"create listener">> \o listenerFactory(c).err
  /\ runPc' = "done"
  /\ runResult' = "err"
  /\ wg' = wg - 1
  /\ UNCHANGED <<scen, createVars, rootCtx, lwPc, nAccepted, nAcceptErr, sessVars,
                 envVars, dataVars, pumpVars, poolVars, crashed>>

\* faulty variant: the watcher closes the listener without waiting for ctx.Done()
ListenerWatcherEager ==
  /\ ~crashed
  /\ lwPc = "wait"
  /\ listener' = "closed"
  /\ lwPc' = "done"
  /\ wg' = wg - 1
  /\ UNCHANGED <<scen, createVars, rootCtx, runPc, runResult, listenVars, nAccepted, nAcceptErr, sessVars,
                 envVars, dataVars, pumpVars, poolVars, crashed>>

\* <-ctx.Done(); listener.Close()
ListenerWatcher ==
  /\ ~crashed
  /\ lwPc = "wait"
  /\ rootCtx
  /\ listener' = "closed"
  /\ lwPc' = "done"
  /\ wg' = wg - 1
  /\ UNCHANGED <<scen, createVars, rootCtx, runPc, runResult, listenVars, nAccepted, nAcceptErr, sessVars,
                 envVars, dataVars, pumpVars, poolVars, crashed>>

\* faulty variant: Accept returns a conn but Run calls handle in its own task,
\* so the next Accept waits for the session to end
AcceptConnSerial ==
  /\ ~crashed
  /\ runPc = "accept"
  /\ listener = "open"
  /\ nAccepted < scen.sessions
  /\ \A t \in 1..nAccepted : hpc[t] = "done"
  /\ LET s == nAccepted + 1 IN
       /\ nAccepted' = s
       /\ hpc' = [hpc EXCEPT ![s] = "dial"]
       /\ conn' = [conn EXCEPT ![s]["client"] = "open"]
       /\ connCtx' = [connCtx EXCEPT ![s] = rootCtx]
  /\ wg' = wg + 1
  /\ UNCHANGED <<scen, createVars, rootCtx, listener, runPc, runResult, listenVars, lwPc, nAcceptErr,
                 envVars, dataVars, pumpVars, poolVars, crashed>>

\* Accept returned a connection: wg.Add(1); go handle(ctx, conn, ...)
\* handle: connCtx, cancelConn := context.WithCancel(parentCtx), which is born
\* cancelled if the parent already is
AcceptConn ==
  /\ ~crashed
  /\ runPc = "accept"
  /\ listener = "open"
  /\ nAccepted < scen.sessions
  /\ LET s == nAccepted + 1 IN
       /\ nAccepted' = s
       /\ hpc' = [hpc EXCEPT ![s] = "dial"]
       /\ conn' = [conn EXCEPT ![s]["client"] = "open"]
       /\ connCtx' = [connCtx EXCEPT ![s] = rootCtx]
  /\ wg' = wg + 1
  /\ UNCHANGED <<scen, createVars, rootCtx, listener, runPc, runResult, listenVars, lwPc, nAcceptErr,
                 envVars, dataVars, pumpVars, poolVars, crashed>>

\* faulty variant: every accept error ends Run with the error
AcceptErrorFatal ==
  /\ ~crashed
  /\ runPc = "accept"
  /\ listener = "open"
  /\ scen.flaky
  /\ nAcceptErr < MaxAcceptErrors
  /\ nAcceptErr' = nAcceptErr + 1
  /\ runPc' = "done"
  /\ runResult' = "err"
  /\ runErr' = <<"accept error">>
  /\ wg' = wg - 1
  /\ UNCHANGED <<scen, createVars, rootCtx, listener, listenIn, lwPc, nAccepted, sessVars, envVars, dataVars,
                 pumpVars, poolVars, crashed>>

\* Accept failed and the error is not net.ErrClosed: log and continue
AcceptError ==
  /\ ~crashed
  /\ runPc = "accept"
  /\ listener = "open"
  /\ scen.flaky
  /\ nAcceptErr < MaxAcceptErrors
  /\ nAcceptErr' = nAcceptErr + 1
  /\ UNCHANGED <<scen, createVars, rootCtx, listener, runPc, runResult, listenVars, lwPc, wg, nAccepted,
                 sessVars, envVars, dataVars, pumpVars, poolVars, crashed>>

\* Accept failed with net.ErrClosed: return nil
AcceptClosed ==
  /\ ~crashed
  /\ runPc = "accept"
  /\ listener = "closed"
  /\ runPc' = "done"
  /\ runResult' = "nil"
  /\ wg' = wg - 1
  /\ UNCHANGED <<scen, createVars, rootCtx, listener, listenVars, lwPc, nAccepted, nAcceptErr, sessVars,
                 envVars, dataVars, pumpVars, poolVars, crashed>>

\* --------------------------------------------------------------- handle
\* faulty variant: the dial does not take the session context, so it can succeed
\* after the context is cancelled
DialOkBackground(s) ==
  /\ ~crashed
  /\ hpc[s] = "dial"
  /\ hpc' = [hpc EXCEPT ![s] = "wait"]
  /\ conn' = [conn EXCEPT ![s]["backend"] = "open"]
  /\ ppc' = [ppc EXCEPT ![s] = [d \in Dirs |-> "get"]]
  /\ wg' = wg + 2
  /\ UNCHANGED <<scen, createVars, rootCtx, runVars, connCtx, envVars, dataVars, pExit, buf, wpc,
                 poolVars, crashed>>

\* DialContext succeeded: defer backend.Close(); wg.Add(2); go readAndWrite x 2
DialOk(s) ==
  /\ ~crashed
  /\ hpc[s] = "dial"
  /\ ~Done(s)
  /\ hpc' = [hpc EXCEPT ![s] = "wait"]
  /\ conn' = [conn EXCEPT ![s]["backend"] = "open"]
  /\ ppc' = [ppc EXCEPT ![s] = [d \in Dirs |-> "get"]]
  /\ wg' = wg + 2
  /\ UNCHANGED <<scen, createVars, rootCtx, runVars, connCtx, envVars, dataVars, pExit, buf, wpc,
                 poolVars, crashed>>

\* faulty variant: the dial-failure return leaves the client conn open
DialFailNoClose(s) ==
  /\ ~crashed
  /\ hpc[s] = "dial"
  /\ hpc' = [hpc EXCEPT ![s] = "done"]
  /\ connCtx' = [connCtx EXCEPT ![s] = TRUE]
  /\ wg' = wg - 1
  /\ UNCHANGED <<scen, createVars, rootCtx, runVars, conn, envVars, dataVars, pumpVars, poolVars, crashed>>

\* DialContext failed (refused, the 5 s timeout, or connCtx cancelled): return;
\* deferred client.Close(), cancelConn(), wg.Done()
DialFail(s) ==
  /\ ~crashed
  /\ hpc[s] = "dial"
  /\ hpc' = [hpc EXCEPT ![s] = "done"]
  /\ conn' = [conn EXCEPT ![s]["client"] = Close(@)]
  /\ connCtx' = [connCtx EXCEPT ![s] = TRUE]
  /\ wg' = wg - 1
  /\ UNCHANGED <<scen, createVars, rootCtx, runVars, envVars, dataVars, pumpVars, poolVars, crashed>>

\* faulty variant: handle returns without waiting for connCtx.Done()
HandleReturnEarly(s) ==
  /\ ~crashed
  /\ hpc[s] = "wait"
  /\ hpc' = [hpc EXCEPT ![s] = "done"]
  /\ conn' = [conn EXCEPT ![s] = [x \in Sides |-> Close(@[x])]]
  /\ connCtx' = [connCtx EXCEPT ![s] = TRUE]
  /\ wg' = wg - 1
  /\ UNCHANGED <<scen, createVars, rootCtx, runVars, envVars, dataVars, pumpVars, poolVars, crashed>>

\* <-connCtx.Done(); deferred backend.Close(), client.Close(), cancelConn(), wg.Done()
HandleReturn(s) ==
  /\ ~crashed
  /\ hpc[s] = "wait"
  /\ Done(s)
  /\ hpc' = [hpc EXCEPT ![s] = "done"]
  /\ conn' = [conn EXCEPT ![s] = [x \in Sides |-> Close(@[x])]]
  /\ connCtx' = [connCtx EXCEPT ![s] = TRUE]
  /\ wg' = wg - 1
  /\ UNCHANGED <<scen, createVars, rootCtx, runVars, envVars, dataVars, pumpVars, poolVars, crashed>>

\* --------------------------------------------------------- sync.Pool
\* faulty variant: New hands out one shared buffer
NewItemShared == [kind |-> "slice", id |-> 1, len |-> scen.newLen]

\* what Get may return: an item of the pool or a fresh New() buffer
\* (Get may ignore the pool and treat it as empty)
NewItem == [kind |-> "slice", id |-> nextBuf + 1, len |-> scen.newLen]
GetChoices == pool \cup {NewItem}

\* bufPool.Put(&buf): the item stored is a pointer to the slice
PutItem(b) == [kind |-> "ptr", id |-> b.id, len |-> b.len]

\* --------------------------------------------------------- readAndWrite
\* faulty variant: the watcher is started without wg.Add(1)
PumpGetNoAdd(s, d) ==
  /\ ~crashed
  /\ ppc[s][d] = "get"
  /\ \E it \in GetChoices :
       /\ it.kind = "slice"
       /\ pool' = pool \ {it}
       /\ nextBuf' = IF it \in pool THEN nextBuf ELSE nextBuf + 1
       /\ buf' = [buf EXCEPT ![s][d] = [id |-> it.id, len |-> it.len]]
  /\ gets' = [gets EXCEPT ![s][d] = @ + 1]
  /\ ppc' = [ppc EXCEPT ![s][d] = "read"]
  /\ wpc' = [wpc EXCEPT ![s][d] = "wait"]
  /\ UNCHANGED <<scen, createVars, rootCtx, runVars, sessVars, envVars, dataVars, pExit, puts, wg, crashed>>

\* faulty variant: only the client-to-backend pump starts a watcher, one per session
PumpGetOneWatcher(s, d) ==
  /\ ~crashed
  /\ ppc[s][d] = "get"
  /\ \E it \in GetChoices :
       /\ it.kind = "slice"
       /\ pool' = pool \ {it}
       /\ nextBuf' = IF it \in pool THEN nextBuf ELSE nextBuf + 1
       /\ buf' = [buf EXCEPT ![s][d] = [id |-> it.id, len |-> it.len]]
  /\ gets' = [gets EXCEPT ![s][d] = @ + 1]
  /\ ppc' = [ppc EXCEPT ![s][d] = "read"]
  /\ IF d = "c2b"
     THEN wpc' = [wpc EXCEPT ![s][d] = "wait"] /\ wg' = wg + 1
     ELSE UNCHANGED <<wpc, wg>>
  /\ UNCHANGED <<scen, createVars, rootCtx, runVars, sessVars, envVars, dataVars, pExit, puts, crashed>>

\* buf := bufPool.Get().([]byte) succeeds; defer Put; wg.Add(1); go watcher
PumpGet(s, d) ==
  /\ ~crashed
  /\ ppc[s][d] = "get"
  /\ \E it \in GetChoices :
       /\ it.kind = "slice"
       /\ pool' = pool \ {it}
       /\ nextBuf' = IF it \in pool THEN nextBuf ELSE nextBuf + 1
       /\ buf' = [buf EXCEPT ![s][d] = [id |-> it.id, len |-> it.len]]
  /\ gets' = [gets EXCEPT ![s][d] = @ + 1]
  /\ ppc' = [ppc EXCEPT ![s][d] = "read"]
  /\ wpc' = [wpc EXCEPT ![s][d] = "wait"]
  /\ wg' = wg + 1
  /\ UNCHANGED <<scen, createVars, rootCtx, runVars, sessVars, envVars, dataVars, pExit, puts, crashed>>

\* bufPool.Get() returns a *[]byte: the type assertion .([]byte) panics; the
\* deferred wg.Done() runs and the process exits
PumpGetPanic(s, d) ==
  /\ ~crashed
  /\ ppc[s][d] = "get"
  /\ \E it \in GetChoices :
       /\ it.kind # "slice"
       /\ pool' = pool \ {it}
  /\ gets' = [gets EXCEPT ![s][d] = @ + 1]
  /\ ppc' = [ppc EXCEPT ![s][d] = "panic"]
  /\ wg' = wg - 1
  /\ crashed' = TRUE
  /\ UNCHANGED <<scen, createVars, rootCtx, runVars, sessVars, envVars, dataVars, pExit, buf, wpc,
                 nextBuf, puts>>

\* the watcher of a pump: <-ctx.Done(); connToRead.Close(); connToWrite.Close()
PumpWatcher(s, d) ==
  /\ ~crashed
  /\ wpc[s][d] = "wait"
  /\ Done(s)
  /\ conn' = [conn EXCEPT ![s] = [x \in Sides |-> Close(@[x])]]
  /\ wpc' = [wpc EXCEPT ![s][d] = "done"]
  /\ wg' = wg - 1
  /\ UNCHANGED <<scen, createVars, rootCtx, runVars, hpc, connCtx, envVars, dataVars, ppc, pExit,
                 buf, poolVars, crashed>>

\* n, err := connToRead.Read(buf) with err = nil: n = k bytes of the queue
PumpReadData(s, d, k) ==
  /\ ~crashed
  /\ ppc[s][d] = "read"
  /\ CanRead(conn[s][Src(d)])
  /\ k \in 1..Min(Avail(s, d), buf[s][d].len)
  /\ chunk' = [chunk EXCEPT ![s][d] = SubSeq(Payload(sent[s][d]), taken[s][d] + 1, taken[s][d] + k)]
  /\ taken' = [taken EXCEPT ![s][d] = @ + k]
  /\ written' = [written EXCEPT ![s][d] = 0]
  /\ ppc' = [ppc EXCEPT ![s][d] = "write"]
  /\ UNCHANGED <<scen, createVars, rootCtx, runVars, sessVars, envVars, delivered, pExit, buf, wpc,
                 poolVars, wg, crashed>>

\* faulty variant: the pump returns without bufPool.Put
PumpExitNoPut(s, d, why) ==
  /\ ppc' = [ppc EXCEPT ![s][d] = "done"]
  /\ pExit' = [pExit EXCEPT ![s][d] = why]
  /\ connCtx' = [connCtx EXCEPT ![s] = TRUE]
  /\ UNCHANGED <<pool, puts>>
  /\ buf' = [buf EXCEPT ![s][d] = NoBuf]
  /\ chunk' = [chunk EXCEPT ![s][d] = <<>>]
  /\ written' = [written EXCEPT ![s][d] = 0]
  /\ wg' = wg - 1

\* faulty variant: cancelConn() flips the state of the session context
PumpExitToggle(s, d, why) ==
  /\ ppc' = [ppc EXCEPT ![s][d] = "done"]
  /\ pExit' = [pExit EXCEPT ![s][d] = why]
  /\ connCtx' = [connCtx EXCEPT ![s] = ~@]
  /\ pool' = pool \cup {PutItem(buf[s][d])}
  /\ puts' = [puts EXCEPT ![s][d] = @ + 1]
  /\ buf' = [buf EXCEPT ![s][d] = NoBuf]
  /\ chunk' = [chunk EXCEPT ![s][d] = <<>>]
  /\ written' = [written EXCEPT ![s][d] = 0]
  /\ wg' = wg - 1

\* the return of a pump: deferred bufPool.Put(&buf) and wg.Done(), after cancelConn()
PumpExit(s, d, why) ==
  /\ ppc' = [ppc EXCEPT ![s][d] = "done"]
  /\ pExit' = [pExit EXCEPT ![s][d] = why]
  /\ connCtx' = [connCtx EXCEPT ![s] = TRUE]
  /\ pool' = pool \cup {PutItem(buf[s][d])}
  /\ puts' = [puts EXCEPT ![s][d] = @ + 1]
  /\ buf' = [buf EXCEPT ![s][d] = NoBuf]
  /\ chunk' = [chunk EXCEPT ![s][d] = <<>>]
  /\ written' = [written EXCEPT ![s][d] = 0]
  /\ wg' = wg - 1

\* why a Read may fail, and with how many bytes: end-of-stream of the peer (a conn
\* that is no *net.TCPConn, such as *tls.Conn, may return the last bytes together
\* with io.EOF), the conn closed or read-shut locally, or an I/O error
ReadFailures(s, d) ==
  LET c == conn[s][Src(d)] IN
  IF ~CanRead(c) THEN {[why |-> "closed", n |-> 0]}
  ELSE (IF s \in scen.active THEN {[why |-> "ioerr", n |-> 0]} ELSE {})
       \cup (IF peer[s][Src(d)] = "fin" /\ Avail(s, d) = 0
             THEN {[why |-> "eos", n |-> 0]} ELSE {})
       \cup (IF /\ peer[s][Src(d)] = "fin" /\ ~IsTCP(Src(d))
                 /\ Avail(s, d) >= 1 /\ Avail(s, d) <= buf[s][d].len
             THEN {[why |-> "eos", n |-> Avail(s, d)]} ELSE {})

\* err != nil: CloseWrite on connToRead if it is a *net.TCPConn; cancelConn(); return.
\* The n bytes read are not written.
PumpReadFail(s, d, f) ==
  /\ ~crashed
  /\ ppc[s][d] = "read"
  /\ f \in ReadFailures(s, d)
  /\ taken' = [taken EXCEPT ![s][d] = @ + f.n]
  /\ conn' = [conn EXCEPT ![s][Src(d)] = IF IsTCP(Src(d)) THEN CloseWrite(@) ELSE @]
  /\ PumpExit(s, d, f.why)
  /\ UNCHANGED <<scen, createVars, rootCtx, runVars, hpc, envVars, delivered, wpc, nextBuf, gets,
                 crashed>>

\* faulty variant: every Write is given buf[0:n] instead of buf[written:n]
PumpWriteOkFromStart(s, d, k) ==
  /\ ~crashed
  /\ ppc[s][d] = "write"
  /\ CanWrite(conn[s][Dst(d)])
  /\ k \in 1..(Len(chunk[s][d]) - written[s][d])
  /\ delivered' = [delivered EXCEPT ![s][d] = @ \o SubSeq(chunk[s][d], 1, k)]
  /\ LET w == written[s][d] + k IN
       IF w < Len(chunk[s][d])
       THEN /\ written' = [written EXCEPT ![s][d] = w]
            /\ UNCHANGED <<ppc, chunk>>
       ELSE /\ written' = [written EXCEPT ![s][d] = 0]
            /\ chunk' = [chunk EXCEPT ![s][d] = <<>>]
            /\ ppc' = [ppc EXCEPT ![s][d] = "read"]
  /\ UNCHANGED <<scen, createVars, rootCtx, runVars, sessVars, envVars, taken, pExit, buf, wpc, poolVars,
                 wg, crashed>>

\* newWritten, writeErr := connToWrite.Write(buf[written:n]) with writeErr = nil
PumpWriteOk(s, d, k) ==
  /\ ~crashed
  /\ ppc[s][d] = "write"
  /\ CanWrite(conn[s][Dst(d)])
  /\ k \in 1..(Len(chunk[s][d]) - written[s][d])
  /\ delivered' = [delivered EXCEPT ![s][d] =
                     @ \o SubSeq(chunk[s][d], written[s][d] + 1, written[s][d] + k)]
  /\ LET w == written[s][d] + k IN
       IF w < Len(chunk[s][d])
       THEN /\ written' = [written EXCEPT ![s][d] = w]
            /\ UNCHANGED <<ppc, chunk>>
       ELSE /\ written' = [written EXCEPT ![s][d] = 0]
            /\ chunk' = [chunk EXCEPT ![s][d] = <<>>]
            /\ ppc' = [ppc EXCEPT ![s][d] = "read"]
  /\ UNCHANGED <<scen, createVars, rootCtx, runVars, sessVars, envVars, taken, pExit, buf, wpc, poolVars,
                 wg, crashed>>

\* writeErr != nil: CloseRead on connToWrite if it is a *net.TCPConn; cancelConn(); return
PumpWriteFail(s, d) ==
  /\ ~crashed
  /\ ppc[s][d] = "write"
  /\ ~CanWrite(conn[s][Dst(d)]) \/ s \in scen.active
  /\ conn' = [conn EXCEPT ![s][Dst(d)] = IF IsTCP(Dst(d)) THEN CloseRead(@) ELSE @]
  /\ PumpExit(s, d, IF CanWrite(conn[s][Dst(d)]) THEN "ioerr" ELSE "closed")
  /\ UNCHANGED <<scen, createVars, rootCtx, runVars, hpc, envVars, taken, delivered, wpc, nextBuf,
                 gets, crashed>>

\* ---------------------------------------------------------- environment
\* the shutdown signal cancels the root context
Shutdown ==
  /\ ~crashed
  /\ ~rootCtx
  /\ rootCtx' = TRUE
  /\ UNCHANGED <<scen, createVars, runVars, wg, sessVars, envVars, dataVars, pumpVars, poolVars, crashed>>

\* the peer on the source side of direction d writes its next byte
PeerSend(s, d) ==
  /\ ~crashed
  /\ conn[s][Src(d)] \in {"open", "wshut"}
  /\ ppc[s][d] # "idle"
  /\ peer[s][Src(d)] = "open"
  /\ s \in scen.active
  /\ sent[s][d] < scen.payload[d]
  /\ sent' = [sent EXCEPT ![s][d] = @ + 1]
  /\ UNCHANGED <<scen, createVars, rootCtx, runVars, wg, sessVars, peer, dataVars, pumpVars, poolVars,
                 crashed>>

\* the peer ends its stream (FIN, close_notify)
PeerClose(s, x) ==
  /\ ~crashed
  /\ conn[s][x] \in {"open", "wshut"}
  /\ ppc[s]["c2b"] # "idle"
  /\ s \in scen.active
  /\ peer[s][x] = "open"
  /\ peer' = [peer EXCEPT ![s][x] = "fin"]
  /\ UNCHANGED <<scen, createVars, rootCtx, runVars, wg, sessVars, sent, dataVars, pumpVars, poolVars,
                 crashed>>

\* ---------------------------------------------------------- CreateProxy
\* a variable of the environment or a flag of the command line: set or not
Unset(zero) == [set |-> FALSE, v |-> zero]
Given(val) == [set |-> TRUE, v |-> val]
\* a member of a JSON object: present or not
Absent(zero) == [has |-> FALSE, v |-> zero]
Member(val) == [has |-> TRUE, v |-> val]

BufSizes == (0 - 1)..MaxBufferSize
AddrOk == <<"localhost", ":", "9090">>
AddrBad == <<"invalid">>
EnvSizes == {<<"a", "b", "c">>, <<"0">>, <<"-", "1">>, <<"6", "4">>}

EnvInputs ==
  {[listen |-> Unset(<<>>), backend |-> Unset(<<>>), buf |-> b, tls |-> t,
    cert |-> Unset(""), key |-> Unset("")] :
     b \in {Unset(<<>>)} \cup {Given(s) : s \in EnvSizes},
     t \in {Unset(""), Given("true")}}

JsonObjects ==
  {[kind |-> "object", listen_addr |-> l, backend_addr |-> Absent(<<>>), buffer_size |-> b,
    tls_enabled |-> Absent(FALSE), cert_file_path |-> Absent(""),
    key_file_path |-> Absent("")] :
     l \in {Absent(<<>>), Member(AddrOk), Member(AddrBad)},
     b \in {Absent(0)} \cup {Member(n) : n \in BufSizes}}

JsonInputs == {[kind |-> "empty"], [kind |-> "invalid"]} \cup JsonObjects

FileInputs ==
  {[readable |-> FALSE, doc |-> [kind |-> "empty"]]}
  \cup {[readable |-> TRUE, doc |-> j] : j \in {o \in JsonObjects : ~o.listen_addr.has}}

FlagInputs ==
  {[listen |-> Unset(<<>>), backend |-> Unset(<<>>), buf |-> b, tls |-> t,
    cert |-> Unset(""), key |-> Unset("")] :
     b \in {Unset(0)} \cup {Given(n) : n \in BufSizes},
     t \in {Unset(FALSE), Given(TRUE)}}

OptionInputs ==
  {[kind |-> "WithListenAddr", addr |-> a] : a \in {AddrOk, AddrBad}}
  \cup {[kind |-> "WithBufferSize", size |-> n] : n \in BufSizes}
  \cup {[kind |-> "WithTlSEnabled", enabled |-> b] : b \in BOOLEAN}
  \cup {[kind |-> "FromEnv", env |-> e] : e \in EnvInputs}
  \cup {[kind |-> "WithConfigJSON", doc |-> j] : j \in JsonInputs}
  \cup {[kind |-> "WithConfigFile", file |-> f] : f \in FileInputs}
  \cup {[kind |-> "WithFlags", args |-> a] : a \in FlagInputs}
  \cup {[kind |-> "func"]}

\* the option lists given to CreateProxy; the flags of the process are defined once
OptionSeqs ==
  {os \in UNION {[1..n -> OptionInputs] : n \in 0..MaxOptions} :
     Cardinality({i \in DOMAIN os : os[i].kind = "WithFlags"}) <= 1}

\* faulty variant: the loop goes on after an option failed
CreateApplyContinue ==
  /\ cpPc = "apply"
  /\ optIx < Len(options)
  /\ LET r == ApplyOption(options[optIx + 1], cfg) IN
       /\ optIx' = optIx + 1
       /\ cfg' = r.cfg
       /\ IF r.err # <<>> /\ cpErr = <<>>
          THEN cpErr' = <<"apply option">> \o r.err
          ELSE UNCHANGED cpErr
  /\ UNCHANGED <<options, cpPc, proxyOut, mainVars>>

\* one turn of `for _, opt := range options`: opt(&cfg), and on an error
\* return nil, fmt.Errorf("apply option: %w", err)
CreateApply ==
  /\ cpPc = "apply"
  /\ optIx < Len(options)
  /\ LET r == ApplyOption(options[optIx + 1], cfg) IN
       /\ optIx' = optIx + 1
       /\ cfg' = r.cfg
       /\ IF r.err # <<>>
          THEN /\ cpPc' = "done"
               /\ cpErr' = <<"apply option">> \o r.err
          ELSE UNCHANGED <<cpPc, cpErr>>
  /\ UNCHANGED <<options, proxyOut, mainVars>>

\* faulty variant: CreateProxy validates the TLS paths before it returns the Proxy
CreateReturnChecked ==
  /\ cpPc = "apply"
  /\ optIx = Len(options)
  /\ cpPc' = "done"
  /\ IF cfg.tlsEnabled /\ (cfg.certFilePath = "" \/ cfg.keyFilePath = "")
     THEN /\ cpErr' = <<"cert file path or key file path is empty">>
          /\ UNCHANGED proxyOut
     ELSE /\ proxyOut' = NewProxy(cfg)
          /\ UNCHANGED cpErr
  /\ UNCHANGED <<options, cfg, optIx, mainVars>>

\* the options are through: return &Proxy{...}, nil
CreateReturn ==
  /\ cpPc = "apply"
  /\ optIx = Len(options)
  /\ cpPc' = "done"
  /\ proxyOut' = NewProxy(cfg)
  /\ UNCHANGED <<options, cfg, optIx, cpErr, mainVars>>

\* CreateProxy is called with some list of options
InitCreate ==
  /\ options \in OptionSeqs
  /\ cfg = DefaultConfig
  /\ optIx = 0
  /\ cpPc = "apply"
  /\ proxyOut = NilProxy
  /\ cpErr = <<>>

\* CreateProxy() has returned the Proxy of the defaults
InitCreated ==
  /\ options = <<>>
  /\ cfg = DefaultConfig
  /\ optIx = 0
  /\ cpPc = "done"
  /\ proxyOut = NewProxy(DefaultConfig)
  /\ cpErr = <<>>

NextCreate == CreateApply \/ CreateReturn

\* nothing runs yet when CreateProxy is called
InitCreateCall == InitCommon /\ scen = ScenProxy /\ InitCreate

SpecCreate == InitCreateCall /\ [][NextCreate]_vars

\* CreateProxy with options of the TLS settings, then Run on the Proxy it returned
MaxTlsOptions == 3

TlsJsonObjects ==
  {[kind |-> "object", listen_addr |-> Absent(<<>>), backend_addr |-> Absent(<<>>),
    buffer_size |-> Absent(0), tls_enabled |-> t, cert_file_path |-> c,
    key_file_path |-> Absent("")] :
     t \in {Absent(FALSE), Member(TRUE)},
     c \in {Absent(""), Member("cert.pem"), Member("missing.pem")}}

TlsOptionInputs ==
  {[kind |-> "WithTlSEnabled", enabled |-> b] : b \in BOOLEAN}
  \cup {[kind |-> "WithCertFilePath", path |-> f] : f \in {"cert.pem", "missing.pem", ""}}
  \cup {[kind |-> "WithKeyFilePath", path |-> f] : f \in {"key.pem", "missing.pem", ""}}
  \cup {[kind |-> "WithConfigJSON", doc |-> j] : j \in TlsJsonObjects}

TlsOptionSeqs == UNION {[1..n -> TlsOptionInputs] : n \in 0..MaxTlsOptions}

InitCreateTls ==
  /\ options \in TlsOptionSeqs
  /\ cfg = DefaultConfig
  /\ optIx = 0
  /\ cpPc = "apply"
  /\ proxyOut = NilProxy
  /\ cpErr = <<>>

NextCreateRun == CreateApply \/ CreateReturn \/ RunListen \/ RunListenFail \/ AcceptConn

InitCreateRun == InitCommon /\ scen = ScenProxy /\ InitCreateTls

SpecCreateRun == InitCreateRun /\ [][NextCreateRun]_vars

\* ----------------------------------------------------------------- Next
Next ==
  \/ RunListen
  \/ RunListenFail
  \/ ListenerWatcher
  \/ AcceptConn
  \/ AcceptError
  \/ AcceptClosed
  \/ \E s \in Sessions : DialOk(s)
  \/ \E s \in Sessions : DialFail(s)
  \/ \E s \in Sessions : HandleReturn(s)
  \/ \E s \in Sessions, d \in Dirs : PumpGet(s, d)
  \/ \E s \in Sessions, d \in Dirs : PumpGetPanic(s, d)
  \/ \E s \in Sessions, d \in Dirs : PumpWatcher(s, d)
  \/ \E s \in Sessions, d \in Dirs, k \in 1..MaxPayload : PumpReadData(s, d, k)
  \/ \E s \in Sessions, d \in Dirs : \E f \in ReadFailures(s, d) : PumpReadFail(s, d, f)
  \/ \E s \in Sessions, d \in Dirs, k \in 1..MaxPayload : PumpWriteOk(s, d, k)
  \/ \E s \in Sessions, d \in Dirs : PumpWriteFail(s, d)
  \/ Shutdown
  \/ \E s \in Sessions, d \in Dirs : PeerSend(s, d)
  \/ \E s \in Sessions, x \in Sides : PeerClose(s, x)

Init == InitCommon /\ InitCreated /\ scen = ScenPump

InitSessions == InitCommon /\ InitCreated /\ scen \in {ScenPump, ScenProxy}

Spec == Init /\ [][Next]_vars

SpecSessions == InitSessions /\ [][Next]_vars

\* The Go scheduler runs every runnable goroutine, a call on a closed conn or
\* listener returns, a read returns once data or the peer's end-of-stream is there,
\* and a dial ends (5 s timeout).  Nothing is assumed of the peers or of the signal.
Fairness ==
  /\ WF_vars(RunListen \/ RunListenFail)
  /\ WF_vars(ListenerWatcher)
  /\ WF_vars(AcceptClosed)
  /\ \A s \in Sessions :
       /\ WF_vars(DialOk(s) \/ DialFail(s))
       /\ WF_vars(HandleReturn(s))
       /\ \A d \in Dirs :
            /\ WF_vars(PumpGet(s, d) \/ PumpGetPanic(s, d))
            /\ WF_vars(PumpWatcher(s, d))
            /\ WF_vars(\E k \in 1..MaxPayload : PumpReadData(s, d, k))
            /\ WF_vars(\E f \in ReadFailures(s, d) : f.why # "ioerr" /\ PumpReadFail(s, d, f))
            /\ WF_vars(~CanWrite(conn[s][Dst(d)]) /\ PumpWriteFail(s, d))

FairSpec == Spec /\ Fairness

\* ------------------------------------------------------------ the claims
Pumps == Sessions \X Dirs

DialSucceeded(s) == conn[s]["backend"] # "none"
DialFailed(s) == hpc[s] = "done" /\ conn[s]["backend"] = "none"

PumpsExited(s) == \A d \in Dirs : ppc[s][d] \in {"idle", "done"}
WatchersExited(s) == \A d \in Dirs : wpc[s][d] \in {"idle", "done"}
\* every task of the session has returned
SessionOver(s) == hpc[s] = "done" /\ PumpsExited(s) /\ WatchersExited(s)
ConnsClosed(s) == \A x \in Sides : conn[s][x] \in {"none", "closed"}

RECURSIVE SumTo(_, _)
SumTo(f, n) == IF n = 0 THEN 0 ELSE f[n]["c2b"] + f[n]["b2c"] + SumTo(f, n - 1)
Borrowed == SumTo(gets, MaxSessions)
Released == SumTo(puts, MaxSessions)

\* C1: echo fidelity.  Once a session whose dial succeeded is over, with both
\* peers having ended their streams, no I/O error and no shutdown, each side has
\* received exactly the bytes the other side wrote.
C1_EchoFidelity ==
  \A s \in Sessions : \A d \in Dirs :
    ( /\ DialSucceeded(s) /\ SessionOver(s)
      /\ ~rootCtx /\ ~crashed
      /\ \A e \in Dirs : pExit[s][e] # "ioerr"
      /\ \A x \in Sides : peer[s][x] = "fin" )
    => delivered[s][d] = Payload(sent[s][d])

\* C2: chunking.  No chunk is longer than the buffer, and a pump that has read a
\* payload longer than its buffer up to the source's end-of-stream has written
\* exactly that payload to the destination.
C2_ChunkingCorrect ==
  \A s \in Sessions : \A d \in Dirs :
    /\ buf[s][d] # NoBuf => Len(chunk[s][d]) <= buf[s][d].len
    /\ (pExit[s][d] = "eos" /\ sent[s][d] > scen.newLen)
         => delivered[s][d] = Payload(sent[s][d])

\* C3: cancellation termination.  After the root context is cancelled every
\* session is eventually closed with all of its tasks returned.
C3_CancellationTerminates ==
  rootCtx ~> (\A s \in Sessions : hpc[s] = "idle" \/ (SessionOver(s) /\ ConnsClosed(s)))

\* C4: graceful stop.  Once the listener exists and the root context is cancelled,
\* Run eventually returns nil.
C4_GracefulStop ==
  (rootCtx /\ listener # "none") ~> (runPc = "done" /\ runResult = "nil")

\* C5: accept error isolation.  A transient accept error leaves Run in its accept
\* loop with the listener open and nothing returned; Run leaves the loop only on
\* an accept that fails because the listener is closed.
C5_AcceptErrorIsolation ==
  [][ /\ nAcceptErr' > nAcceptErr
        => (runPc' = "accept" /\ runResult' = "none" /\ listener' = "open" /\ wg' = wg)
      /\ (runPc = "accept" /\ runPc' = "done")
        => (listener = "closed" /\ nAcceptErr' = nAcceptErr) ]_vars

\* after a transient error a further Accept can return a connection
C5_Witness == nAcceptErr > 0 /\ ENABLED AcceptConn

\* the state of session t
SessState(t) ==
  <<hpc[t], connCtx[t], conn[t], peer[t], sent[t], taken[t], ppc[t], pExit[t], buf[t],
    chunk[t], written[t], delivered[t], wpc[t], gets[t], puts[t]>>

\* C6: backend unavailable.  A session whose dial failed has its client conn
\* closed, no pump, no watcher and no buffer; the step that ends it changes neither
\* the accept loop, the listener, the root context, the pool nor another session.
C6_BackendUnavailable ==
  /\ [](\A s \in Sessions : DialFailed(s) =>
          /\ conn[s]["client"] = "closed"
          /\ \A d \in Dirs : ppc[s][d] = "idle" /\ wpc[s][d] = "idle"
                             /\ gets[s][d] = 0 /\ buf[s][d] = NoBuf)
  /\ [][\A s \in Sessions : (hpc[s] = "dial" /\ hpc'[s] = "done") =>
          /\ UNCHANGED <<rootCtx, listener, runPc, runResult, lwPc, pool, nextBuf, crashed>>
          /\ \A t \in Sessions \ {s} : SessState(t)' = SessState(t)]_vars

\* a dial has failed while another session relays and Run is still accepting
C6_Witness ==
  \E s \in Sessions, t \in Sessions :
    /\ s # t /\ DialFailed(s)
    /\ hpc[t] = "wait" /\ \E d \in Dirs : ppc[t][d] = "read"
    /\ runPc = "accept" /\ listener = "open"

\* C7: buffer conservation.  A pump has borrowed nothing before its Get, holds
\* one borrowed and unreleased buffer while it runs, and has released exactly one
\* once it has returned; when every session is over, borrowed = released.
C7_BufferConservation ==
  /\ \A s \in Sessions : \A d \in Dirs :
       /\ ppc[s][d] \in {"idle", "get"} => (gets[s][d] = 0 /\ puts[s][d] = 0)
       /\ ppc[s][d] \in {"read", "write"} => (gets[s][d] = 1 /\ puts[s][d] = 0)
       /\ ppc[s][d] = "done" => (gets[s][d] = 1 /\ puts[s][d] = 1)
  /\ (\A s \in Sessions : hpc[s] = "idle" \/ SessionOver(s)) => Borrowed = Released

\* a session is over whose pumps left by different paths
C7_Witness ==
  \E s \in Sessions :
    /\ SessionOver(s)
    /\ pExit[s]["c2b"] = "eos" /\ pExit[s]["b2c"] = "closed"
    /\ Borrowed = 2 /\ Released = 2

\* C8: fixed-size buffers, and no borrow fails.
C8_BorrowNeverFails ==
  /\ ~crashed
  /\ \A s \in Sessions : \A d \in Dirs :
       /\ ppc[s][d] # "panic"
       /\ buf[s][d] # NoBuf => buf[s][d].len = scen.newLen

Holding(p) == buf[p[1]][p[2]] # NoBuf

\* C9: buffer exclusivity.  Two pumps never hold the same buffer, a buffer a pump
\* holds is not in the pool, and a pump is reading or writing only while it holds
\* its buffer.
C9_BufferExclusive ==
  /\ \A p \in Pumps, q \in Pumps :
       (p # q /\ Holding(p) /\ Holding(q)) => buf[p[1]][p[2]].id # buf[q[1]][q[2]].id
  /\ \A p \in Pumps : Holding(p) => \A it \in pool : it.id # buf[p[1]][p[2]].id
  /\ \A p \in Pumps : ppc[p[1]][p[2]] \in {"read", "write"} <=> Holding(p)

\* pumps of two sessions hold buffers while a released one lies in the pool
C9_Witness ==
  \E d \in Dirs, e \in Dirs :
    /\ Holding(<<1, d>>) /\ Holding(<<2, e>>)
    /\ pool # {}

\* C10 as stated: the handler has returned only if both pumps and the watchers
\* have returned.
C10_HandlerWaitsForPumps ==
  \A s \in Sessions :
    (hpc[s] = "done" /\ ~crashed) => (PumpsExited(s) /\ WatchersExited(s))

\* C10 amended: the handler returns only once the session context is cancelled,
\* and when it has returned the context is cancelled and both conns are closed.
C10_HandlerReturnsAfterCancel ==
  /\ [][\A s \in Sessions : (hpc[s] = "wait" /\ hpc'[s] = "done") => Done(s)]_vars
  /\ [](\A s \in Sessions : hpc[s] = "done" => (connCtx[s] /\ ConnsClosed(s)))

\* the handler has returned while a pump of its session is still in its loop
C10_Witness ==
  \E s \in Sessions, d \in Dirs : hpc[s] = "done" /\ ppc[s][d] \in {"read", "write"}

\* a task of session s takes a failure exit: the dial fails, or a pump returns
\* on a read error, a write error or end-of-stream
FailureStep(s) ==
  \/ hpc[s] = "dial" /\ hpc'[s] = "done"
  \/ \E d \in Dirs : ppc[s][d] \in {"read", "write"} /\ ppc'[s][d] = "done"

\* the step changes nothing of Run, the listener, the root context or session t
Contained(s) ==
  /\ UNCHANGED <<rootCtx, listener, runPc, runResult, lwPc, nAccepted>>
  /\ \A t \in Sessions \ {s} : UNCHANGED <<hpc[t], connCtx[t], conn[t], ppc[t], wpc[t]>>

\* C11 (the step part): a failure exit in one session changes neither Run, the
\* listener, the root context nor another session.
C11_FailureStepContained ==
  [][\A s \in Sessions : FailureStep(s) => Contained(s)]_vars

\* C11: failure containment.  A failure exit in one session changes neither Run,
\* the listener, the root context nor another session, and after a pump of some
\* session has returned the process still runs: the accept loop is not stopped
\* and no other session is torn down.
C11_FailureContainment ==
  /\ C11_FailureStepContained
  /\ [](\A s \in Sessions : (\E d \in Dirs : pExit[s][d] # "none") => ~crashed)

\* Run has returned the error of a failed listener creation
ListenFailed == runPc = "done" /\ runResult = "err"

\* C12: listener creation failure.  Run holds one count of the WaitGroup until it
\* returns; when the listener cannot be created Run returns "create listener"
\* wrapping the factory's error, with no listener, no connection accepted, no
\* watcher, handler or pump started, and the WaitGroup back at zero.
C12_ListenFailure ==
  /\ runPc = "create" => wg = 1
  /\ ListenFailed =>
       /\ Len(runErr) >= 2 /\ Head(runErr) = "create listener"
       /\ Tail(runErr) = listenerFactory(listenIn).err
       /\ listener = "none" /\ nAccepted = 0 /\ lwPc = "idle"
       /\ \A s \in Sessions : hpc[s] = "idle" /\ \A d \in Dirs : ppc[s][d] = "idle" /\ wpc[s][d] = "idle"
       /\ wg = 0

\* Run of a plain TCP proxy has failed on an address in use
C12_Witness ==
  /\ ListenFailed /\ ~listenIn.tls /\ ~listenIn.addrFree
  /\ runErr = <<"create listener", "listen error", "address already in use">>

\* C13: errors of the TLS listener factory.  With an empty certificate or key path
\* the factory fails with the configuration error; with paths whose pair does not
\* load it fails with the credential error; and whenever it fails, also with a
\* free listen address, there is no listener.
C13_TlsFactoryErrors ==
  (runPc # "create" /\ listenIn.tls) =>
    /\ (listenIn.cert = "" \/ listenIn.key = "") =>
         (ListenFailed /\ Tail(runErr) = <<"cert file path or key file path is empty">>)
    /\ (listenIn.cert # "" /\ listenIn.key # "" /\ ~listenIn.pairOk) =>
         (ListenFailed /\ Len(runErr) = 3 /\ runErr[2] = "load x509 key pair")
    /\ ListenFailed => listener = "none"
    /\ ~ListenFailed => (listenIn.cert # "" /\ listenIn.key # "" /\ listenIn.pairOk)

\* the pair did not load although both paths are set and the address is free
C13_Witness ==
  /\ ListenFailed /\ listenIn.tls /\ listenIn.addrFree
  /\ listenIn.cert # "" /\ listenIn.key # "" /\ ~listenIn.pairOk

\* the session was ended by the shutdown alone: both pumps returned because their
\* conns were closed under them, none on an end-of-stream or an error of its own
EndedByShutdown(s) ==
  rootCtx /\ SessionOver(s) /\ \A d \in Dirs : pExit[s][d] = "closed"

\* C14: graceful shutdown completes transfers.  When the shutdown has ended a
\* session, every byte a pump had read from one peer was written to the other.
C14_ShutdownCompletesTransfers ==
  \A s \in Sessions : \A d \in Dirs :
    EndedByShutdown(s) => Len(delivered[s][d]) = taken[s][d]

\* the goroutines that have been started and have not returned
LiveTasks ==
  (IF runPc # "done" THEN 1 ELSE 0)
  + (IF lwPc = "wait" THEN 1 ELSE 0)
  + Cardinality({s \in Sessions : hpc[s] \in {"dial", "wait"}})
  + Cardinality({p \in Pumps : ppc[p[1]][p[2]] \in {"get", "read", "write"}})
  + Cardinality({p \in Pumps : wpc[p[1]][p[2]] = "wait"})

\* C15: exit waits for all tasks.  The WaitGroup counter equals the number of live
\* tasks (so it is never negative and is zero only when Run, the listener watcher
\* and every handler, pump and pump watcher have returned), and it is raised only
\* while it is positive, by a task that still holds a count.
C15_WaitGroupCountsTasks ==
  /\ [](wg = LiveTasks /\ wg >= 0)
  /\ [](wg = 0 => /\ runPc = "done" /\ lwPc # "wait"
                  /\ \A s \in Sessions : hpc[s] \in {"idle", "done"}
                                         /\ \A d \in Dirs : /\ ppc[s][d] \in {"idle", "done", "panic"}
                                                            /\ wpc[s][d] # "wait")
  /\ [][wg' > wg => wg >= 1]_vars

\* Run, the listener watcher and a handler have returned while a pump of that
\* handler's session is still in its loop, and the counter is still positive
C15_Witness ==
  /\ runPc = "done" /\ lwPc = "done" /\ wg > 0
  /\ \E s \in Sessions, d \in Dirs : hpc[s] = "done" /\ ppc[s][d] \in {"read", "write"}

\* C16: steady state never returns.  Once the listener exists, Run leaves its
\* accept loop only by returning nil on an Accept that failed because the listener
\* is closed, and the listener is closed only by its watcher after the root
\* context was cancelled.
C16_SteadyStateNeverReturns ==
  /\ [][(runPc = "accept" /\ runPc' # "accept") =>
          (listener = "closed" /\ rootCtx /\ runPc' = "done" /\ runResult' = "nil")]_vars
  /\ [](listener = "closed" => (rootCtx /\ lwPc = "done"))
  /\ [](runPc = "accept" => (runResult = "none" /\ listener # "none"))

\* Run has returned nil after a connection was accepted, its session ended and
\* an Accept failed transiently
C16_Witness ==
  /\ runPc = "done" /\ runResult = "nil"
  /\ nAcceptErr > 0
  /\ \E s \in Sessions : DialSucceeded(s) /\ SessionOver(s) /\ pExit[s]["c2b"] = "eos"

CreateDone == cpPc = "done"
CreateSucceeded == CreateDone /\ cpErr = <<>>

\* the option hands a buffer size <= 0 to WithBufferSize, in the environment or
\* in a JSON document
SuppliesNonPositive(o) ==
  \/ o.kind = "WithBufferSize" /\ o.size <= 0
  \/ o.kind = "FromEnv" /\ o.env.buf.set /\ Atoi(o.env.buf.v).err = <<>> /\ Atoi(o.env.buf.v).n <= 0
  \/ o.kind = "WithConfigJSON" /\ o.doc.kind = "object" /\ o.doc.buffer_size.has
       /\ o.doc.buffer_size.v <= 0

\* the same, but for a JSON document only a negative size
SuppliesRejected(o) ==
  /\ SuppliesNonPositive(o)
  /\ o.kind = "WithConfigJSON" => o.doc.buffer_size.v < 0

\* a JSON document whose only member is "buffer_size": 0
JsonZeroSize(o) ==
  /\ o.kind = "WithConfigJSON" /\ o.doc.kind = "object"
  /\ o.doc.buffer_size = Member(0) /\ ~o.doc.listen_addr.has

\* C17 as stated: a Proxy returned without error has a positive buffer size, and
\* a buffer size <= 0 given to WithBufferSize, in the environment or in JSON makes
\* CreateProxy fail.
C17_NonPositiveRejected ==
  CreateDone =>
    /\ cpErr = <<>> => (~proxyOut.nil /\ proxyOut.config.bufferSize > 0)
    /\ (\E i \in 1..Len(options) : SuppliesNonPositive(options[i])) => cpErr # <<>>

\* C17 amended: a Proxy returned without error has a positive buffer size; a
\* buffer size <= 0 given to WithBufferSize or in the environment, or a negative
\* one in JSON, makes CreateProxy fail; "buffer_size": 0 in JSON counts as absent
\* and leaves the buffer size as it was.
C17_BufferSizeValidated ==
  CreateDone =>
    /\ cpErr = <<>> => (~proxyOut.nil /\ proxyOut.config.bufferSize > 0
                        /\ proxyOut.newLen = KiB * proxyOut.config.bufferSize)
    /\ (\E i \in 1..Len(options) : SuppliesRejected(options[i])) => cpErr # <<>>
    /\ (Len(options) = 1 /\ JsonZeroSize(options[1])) =>
         (cpErr = <<>> /\ proxyOut.config.bufferSize = bufferSizeDefault)

\* CreateProxy has succeeded although a JSON document carried "buffer_size": 0
\* after an option that set the size
C17_Witness ==
  /\ CreateSucceeded /\ Len(options) = 2
  /\ options[1].kind = "WithBufferSize" /\ JsonZeroSize(options[2])
  /\ proxyOut.config.bufferSize = options[1].size

\* the options applied one after the other to c, from the i-th on, up to the first
\* that fails: the index of that one (0 if none) and the config reached
RECURSIVE RunOptions(_, _, _)
RunOptions(os, i, c) ==
  IF i > Len(os) THEN [failed |-> 0, cfg |-> c]
  ELSE LET r == ApplyOption(os[i], c) IN
       IF r.err # <<>> THEN [failed |-> i, cfg |-> r.cfg] ELSE RunOptions(os, i + 1, r.cfg)

\* C18: option failure aborts construction.  CreateProxy starts from the default
\* config and applies the options in order; it stops at the first option that
\* fails, applies none after it and returns nil with an "apply option" error;
\* if none fails it returns a Proxy of the config the options built, and no error.
C18_OptionFailureAborts ==
  /\ [](optIx = 0 => cfg = DefaultConfig)
  /\ [][optIx' # optIx => (optIx' = optIx + 1 /\ cpErr = <<>>)]_vars
  /\ [](CreateDone =>
          LET run == RunOptions(options, 1, DefaultConfig) IN
          IF run.failed = 0
          THEN cpErr = <<>> /\ optIx = Len(options) /\ proxyOut = NewProxy(run.cfg)
          ELSE /\ proxyOut = NilProxy /\ optIx = run.failed
               /\ Head(cpErr) = "apply option"
               /\ Tail(cpErr) = ApplyOption(options[run.failed], cfg).err)
  /\ [](~CreateDone => (cpErr = <<>> /\ proxyOut = NilProxy))

\* CreateProxy has failed on its first option; the second, a valid buffer size,
\* was not applied
C18_Witness ==
  /\ CreateDone /\ cpErr # <<>> /\ Len(options) = 2 /\ optIx = 1
  /\ options[2].kind = "WithBufferSize" /\ options[2].size > 0
  /\ cfg.bufferSize = bufferSizeDefault

\* the pump of direction d returns from a failed Read
ReadFailureExit(s, d) == ppc[s][d] = "read" /\ ppc'[s][d] = "done"

\* C20: read-failure half-close.  The step in which a pump returns from a failed
\* Read (end-of-stream included) shuts down the write half of the destination
\* conn if that is a *net.TCPConn and closes the destination otherwise, and
\* cancels the session context.
C20_ReadFailureHalfClose ==
  [][\A s \in Sessions : \A d \in Dirs :
       ReadFailureExit(s, d) =>
         /\ conn'[s][Dst(d)] = IF IsTCP(Dst(d)) THEN CloseWrite(conn[s][Dst(d)])
                               ELSE Close(conn[s][Dst(d)])
         /\ connCtx'[s]]_vars

\* the pump of direction d returns from a failed Write
WriteFailureExit(s, d) == ppc[s][d] = "write" /\ ppc'[s][d] = "done"

\* C21: write-failure half-close.  The step in which a pump returns from a failed
\* Write shuts down the read half of the source conn if that is a *net.TCPConn
\* and closes the source otherwise, cancels the session context, and writes
\* nothing more of the chunk.
C21_WriteFailureHalfClose ==
  [][\A s \in Sessions : \A d \in Dirs :
       WriteFailureExit(s, d) =>
         /\ conn'[s][Src(d)] = IF IsTCP(Src(d)) THEN CloseRead(conn[s][Src(d)])
                               ELSE Close(conn[s][Src(d)])
         /\ connCtx'[s]
         /\ delivered'[s][d] = delivered[s][d]]_vars

\* C22: first failure wins.  Once a pump of a session has returned, the session
\* context is cancelled and both pumps of the session eventually have returned.
C22_FirstFailureWins ==
  \A s \in Sessions :
    (\E d \in Dirs : ppc[s][d] = "done") ~> (connCtx[s] /\ PumpsExited(s))

\* C23: shutdown reaches every session.  Once the root context is cancelled the
\* context of every accepted session is done, whatever the state of the listener,
\* and both conns of the session are eventually closed.
C23_ShutdownReachesSessions ==
  /\ [](rootCtx => \A s \in Sessions : Done(s))
  /\ \A s \in Sessions : (rootCtx /\ hpc[s] # "idle") ~> ConnsClosed(s)

\* the state of session s, read off handle: not accepted yet, in DialContext,
\* blocked on <-connCtx.Done() with the context live or done, returned
SessionState(s) ==
  IF hpc[s] = "idle" THEN "None"
  ELSE IF hpc[s] = "dial" THEN "Dialing"
  ELSE IF hpc[s] = "done" THEN "Closed"
  ELSE IF Done(s) THEN "Draining"
  ELSE "Relaying"

SessionEdges ==
  {<<"None", "Dialing">>, <<"Dialing", "Relaying">>, <<"Dialing", "Closed">>,
   <<"Relaying", "Draining">>, <<"Draining", "Closed">>}

\* both readAndWrite tasks of the session have returned
PumpsReturned(s) == \A d \in Dirs : ppc[s][d] = "done"

\* C24 as stated: a session moves only along Dialing -> Relaying, Dialing ->
\* Closed, Relaying -> Draining and Draining -> Closed, and it moves from Draining
\* to Closed only when both of its pumps have returned.
C24_SessionStateMachine ==
  [][\A s \in Sessions :
       SessionState(s)' # SessionState(s) =>
         /\ <<SessionState(s), SessionState(s)'>> \in SessionEdges
         /\ (SessionState(s) = "Draining" /\ SessionState(s)' = "Closed")
              => PumpsReturned(s)']_vars

\* C24 amended: a session moves only along Dialing -> Relaying (the dial
\* succeeded), Dialing -> Closed (the dial failed: client closed, no backend),
\* Relaying -> Draining (a pump returned after cancelling the session, or the
\* root context was cancelled) and Draining -> Closed (the handler saw the
\* cancellation and returned, closing both conns, whether or not the pumps have
\* returned); it never re-enters Relaying, never goes from Relaying to Closed in
\* one step and never leaves Closed.
C24_SessionStateMachineOfHandle ==
  [][\A s \in Sessions :
       SessionState(s)' # SessionState(s) =>
         /\ <<SessionState(s), SessionState(s)'>> \in SessionEdges
         /\ (SessionState(s) = "Dialing" /\ SessionState(s)' = "Relaying")
              => conn'[s]["backend"] = "open"
         /\ (SessionState(s) = "Dialing" /\ SessionState(s)' = "Closed")
              => (conn'[s]["backend"] = "none" /\ conn'[s]["client"] = "closed")
         /\ (SessionState(s) = "Relaying" /\ SessionState(s)' = "Draining")
              => \/ ~rootCtx /\ rootCtx'
                 \/ \E d \in Dirs : ppc[s][d] \in {"read", "write"} /\ ppc'[s][d] = "done"
         /\ (SessionState(s) = "Draining" /\ SessionState(s)' = "Closed")
              => ConnsClosed(s)']_vars

\* a session that relayed is Closed with one pump returned and the other still
\* at its Read
C24_Witness ==
  \E s \in Sessions :
    /\ SessionState(s) = "Closed" /\ DialSucceeded(s)
    /\ ppc[s]["c2b"] = "done" /\ ppc[s]["b2c"] = "read"

\* C25: the accept loop never stalls.  The step that accepts a conn starts its
\* session, touches no other session and leaves Run at its next Accept; and while
\* every accepted session is still Dialing or Relaying, Run at Accept with the
\* listener open can accept a further incoming conn.
C25_AcceptNeverStalls ==
  /\ [][nAccepted' > nAccepted =>
          /\ runPc' = "accept" /\ listener' = "open"
          /\ hpc'[nAccepted'] = "dial" /\ wg' = wg + 1
          /\ \A t \in Sessions \ {nAccepted'} : SessState(t)' = SessState(t)]_vars
  /\ []( ( /\ runPc = "accept" /\ listener = "open" /\ nAccepted < scen.sessions
           /\ \A s \in Sessions : SessionState(s) \in {"None", "Dialing", "Relaying"} )
         => ENABLED AcceptConn )

\* a further conn was accepted while an earlier session was still Relaying
C25_Witness ==
  /\ nAccepted = MaxSessions
  /\ SessionState(1) = "Relaying"
  /\ SessionState(MaxSessions) \in {"Dialing", "Relaying"}

\* the step calls cancelConn of session s: a pump returns from its loop, or
\* handle returns (defer cancelConn())
CancelCall(s) ==
  \/ hpc[s] \in {"dial", "wait"} /\ hpc'[s] = "done"
  \/ \E d \in Dirs : ppc[s][d] \in {"read", "write"} /\ ppc'[s][d] = "done"

WrittenInStep(s, d) ==
  SubSeq(delivered'[s][d], Len(delivered[s][d]) + 1, Len(delivered'[s][d]))

\* C27: the partial-write counter.  With n the length of the chunk read: written
\* is 0 after the Read, and 0 <= written < n whenever a Write is issued; a Write
\* without error takes a non-empty prefix of the bytes at written..n-1 and adds
\* its length to written; the pump goes back to Read only by a Write that brings
\* written to n, and leaves the write loop otherwise only by a write error, which
\* delivers nothing.
C27_PartialWriteCounter ==
  /\ [](\A s \in Sessions : \A d \in Dirs :
          ppc[s][d] = "write" =>
            (written[s][d] >= 0 /\ written[s][d] < Len(chunk[s][d])))
  /\ [][\A s \in Sessions : \A d \in Dirs :
          LET n == Len(chunk[s][d])
              k == Len(WrittenInStep(s, d)) IN
          /\ (ppc[s][d] = "read" /\ ppc'[s][d] = "write")
               => (written'[s][d] = 0 /\ Len(chunk'[s][d]) >= 1)
          /\ ppc[s][d] # "write" => delivered'[s][d] = delivered[s][d]
          /\ (ppc[s][d] = "write" /\ ppc'[s][d] = "write" /\ k > 0)
               => /\ written'[s][d] = written[s][d] + k
                  /\ chunk'[s][d] = chunk[s][d]
                  /\ WrittenInStep(s, d)
                       = SubSeq(chunk[s][d], written[s][d] + 1, written[s][d] + k)
          /\ (ppc[s][d] = "write" /\ ppc'[s][d] = "write" /\ k = 0)
               => (written'[s][d] = written[s][d] /\ chunk'[s][d] = chunk[s][d])
          /\ (ppc[s][d] = "write" /\ ppc'[s][d] = "read")
               => /\ written[s][d] + k = n
                  /\ WrittenInStep(s, d) = SubSeq(chunk[s][d], written[s][d] + 1, n)
          /\ (ppc[s][d] = "write" /\ ppc'[s][d] \notin {"write", "read"})
               => (ppc'[s][d] = "done" /\ pExit'[s][d] \in {"ioerr", "closed"} /\ k = 0)]_vars

\* a chunk of two bytes was written by two Writes of one byte each
C27_Witness ==
  \E s \in Sessions : \E d \in Dirs :
    /\ ppc[s][d] = "write" /\ Len(chunk[s][d]) = 2 /\ written[s][d] = 1
    /\ Len(delivered[s][d]) >= 1

\* in the step both peers of session s stay silent (nothing sent or pending, no
\* close, no I/O error) and the root context is not cancelled
QuietStep(s) ==
  /\ \A x \in Sides : peer[s][x] = "open" /\ peer'[s][x] = "open"
  /\ \A d \in Dirs : Avail(s, d) = 0 /\ sent'[s][d] = sent[s][d] /\ pExit'[s][d] # "ioerr"
  /\ ~rootCtx'

\* C28: silent peers hold a session forever.  A step in which the peers of a
\* Relaying session stay silent and no shutdown arrives leaves the session
\* Relaying: its conns are untouched, no pump has left its loop and no watcher
\* has run.
C28_SilentSessionStays ==
  [][\A s \in Sessions :
       (SessionState(s) = "Relaying" /\ QuietStep(s)) =>
         /\ SessionState(s)' = "Relaying"
         /\ conn'[s] = conn[s]
         /\ \A d \in Dirs : ppc'[s][d] \in {"get", "read", "write"}
                            /\ wpc'[s][d] \in {"idle", "wait"}]_vars

\* C29: dialing always ends.  A session in DialContext eventually leaves it, by
\* success, or by failure, timeout or cancellation of its context; it is then
\* Relaying (the context is live and the backend conn open) or Closed.
C29_DialingEnds ==
  /\ \A s \in Sessions : (hpc[s] = "dial") ~> (hpc[s] \in {"wait", "done"})
  /\ [][\A s \in Sessions :
          (hpc[s] = "dial" /\ hpc'[s] # "dial") =>
            \/ SessionState(s)' = "Relaying" /\ conn'[s]["backend"] = "open"
            \/ SessionState(s)' = "Closed" /\ conn'[s]["backend"] = "none"]_vars

\* a dial that was pending when the root context was cancelled has ended without
\* a backend conn
C29_Witness ==
  \E s \in Sessions :
    /\ rootCtx /\ hpc[s] = "done"
    /\ conn[s]["backend"] = "none" /\ conn[s]["client"] = "closed"

\* the option supplies a certificate or key path that names no file
MissingPath(o) ==
  CASE o.kind \in {"WithCertFilePath", "WithKeyFilePath"} -> o.path \notin ExistingFiles
    [] o.kind = "WithConfigJSON" ->
         \/ o.doc.cert_file_path.v # "" /\ o.doc.cert_file_path.v \notin ExistingFiles
         \/ o.doc.key_file_path.v # "" /\ o.doc.key_file_path.v \notin ExistingFiles
    [] OTHER -> FALSE

\* the Proxy has TLS enabled and a path is empty or the pair found does not load
CertUnusable ==
  /\ proxyOut.config.tlsEnabled
  /\ \/ proxyOut.config.certFilePath = "" \/ proxyOut.config.keyFilePath = ""
     \/ ~listenIn.pairOk

\* Run returned the listener factory's error with no listener and no conn accepted
FailedAtListen ==
  /\ runPc = "done" /\ runResult = "err" /\ runErr[1] = "create listener"
  /\ listener = "none" /\ nAccepted = 0 /\ hpc = [s \in Sessions |-> "idle"]

\* C30 as stated: the certificate and key paths are checked when Run creates the
\* listener and not earlier.  CreateProxy returns no error about a certificate or
\* key path, and a Proxy with TLS enabled whose paths are empty or do not load
\* fails in Run at the listener's creation.
C30_CertCheckedOnlyAtListen ==
  /\ [](cpErr # <<>> => cpErr[2] \notin {"cert file path", "key file path"})
  /\ []((runPc # "create" /\ CertUnusable) => FailedAtListen)

\* C30 amended: CreateProxy checks of a certificate or key path that an option
\* supplies only that it names an existing file, and fails exactly if one does
\* not; whether the paths are non-empty and the pair loads is checked when Run
\* creates the listener: with TLS enabled and empty or unloadable paths Run fails
\* there, before any conn is accepted.
C30_CertCheckedAtListen ==
  /\ [](CreateDone =>
          /\ CreateSucceeded <=> ~\E i \in DOMAIN options : MissingPath(options[i])
          /\ cpErr # <<>> =>
               /\ cpErr[1] = "apply option" /\ cpErr[2] \in {"cert file path", "key file path"}
               /\ MissingPath(options[optIx]))
  /\ [](runPc # "create" => CreateSucceeded)
  /\ []((runPc # "create" /\ CertUnusable) => FailedAtListen)

\* CreateProxy returned a Proxy with TLS enabled and no certificate path, and Run
\* on it failed at the path check of the listener factory
C30_Witness ==
  /\ CreateSucceeded /\ options # <<>>
  /\ proxyOut.config.tlsEnabled /\ proxyOut.config.certFilePath = ""
  /\ runErr = <<"create listener", "cert file path or key file path is empty">>

ConfigFields ==
  {"listenAddr", "backendAddr", "bufferSize", "tlsEnabled", "certFilePath", "keyFilePath"}

\* the variable of the environment, or the flag, that feeds field f
SettingOf(f) ==
  CASE f = "listenAddr" -> "listen" [] f = "backendAddr" -> "backend"
    [] f = "bufferSize" -> "buf" [] f = "tlsEnabled" -> "tls"
    [] f = "certFilePath" -> "cert" [] f = "keyFilePath" -> "key"

\* the member of the JSON object that feeds field f
MemberOf(f) ==
  CASE f = "listenAddr" -> "listen_addr" [] f = "backendAddr" -> "backend_addr"
    [] f = "bufferSize" -> "buffer_size" [] f = "tlsEnabled" -> "tls_enabled"
    [] f = "certFilePath" -> "cert_file_path" [] f = "keyFilePath" -> "key_file_path"

IsSource(o) == o.kind \in {"FromEnv", "WithConfigJSON", "WithConfigFile", "WithFlags"}

\* the configuration source o was given a value for field f
GivenValue(o, f) ==
  CASE o.kind = "FromEnv" -> o.env[SettingOf(f)].set
    [] o.kind = "WithFlags" -> o.args[SettingOf(f)].set
    [] o.kind = "WithConfigJSON" -> o.doc.kind = "object" /\ o.doc[MemberOf(f)].has
    [] o.kind = "WithConfigFile" ->
         o.file.readable /\ o.file.doc.kind = "object" /\ o.file.doc[MemberOf(f)].has
    [] OTHER -> FALSE

\* C31: configuration sources have a frame.  When CreateProxy applies FromEnv,
\* WithConfigJSON, WithConfigFile or WithFlags, a field of the config changes only
\* if the source was given a value for it.
C31_SourceFrame ==
  [][\A f \in ConfigFields :
       (cpPc = "apply" /\ optIx' = optIx + 1 /\ IsSource(options[optIx']) /\ cfg'[f] # cfg[f])
         => GivenValue(options[optIx'], f)]_vars

\* the goroutines of session s that have been started and have not returned
SessionTasks(s) ==
  (IF hpc[s] \in {"dial", "wait"} THEN 1 ELSE 0)
  + Cardinality({d \in Dirs : ppc[s][d] \in {"get", "read", "write"}})
  + Cardinality({d \in Dirs : wpc[s][d] = "wait"})

\* both pumps of the session are in their read/write loop
PumpsInLoop(s) == \A d \in Dirs : ppc[s][d] \in {"read", "write"}

\* C32 as stated: a Relaying session whose pumps are in their loops runs exactly
\* four tasks (handler, two pumps, one watcher), and Run in its accept loop has
\* exactly one listener watcher until shutdown.
C32_FourTasksPerSession ==
  /\ \A s \in Sessions :
       (SessionState(s) = "Relaying" /\ PumpsInLoop(s)) => SessionTasks(s) = 4
  /\ (runPc = "accept" /\ ~rootCtx) => lwPc = "wait"

\* C32 amended: in a Relaying session the handler is live, each pump has been
\* started, and a pump has its own watcher exactly from its Get on: five tasks
\* (handler, two pumps, two watchers) once both pumps are in their loops; Run in
\* its accept loop has exactly one listener watcher until shutdown, whatever the
\* sessions.
C32_TasksPerSession ==
  /\ \A s \in Sessions :
       SessionState(s) = "Relaying" =>
         /\ \A d \in Dirs : /\ ppc[s][d] \in {"get", "read", "write", "panic"}
                            /\ (wpc[s][d] = "wait") <=> (ppc[s][d] \in {"read", "write"})
         /\ PumpsInLoop(s) => SessionTasks(s) = 5
         /\ SessionTasks(s) <= 5
  /\ (runPc = "accept" /\ ~rootCtx) => lwPc = "wait"
  /\ lwPc = "wait" => runPc = "accept"

\* every accepted session is Relaying with five live tasks, beside Run and the one
\* listener watcher
C32_Witness ==
  /\ nAccepted = MaxSessions /\ runPc = "accept" /\ lwPc = "wait"
  /\ \A s \in Sessions : SessionState(s) = "Relaying" /\ SessionTasks(s) = 5

\* C33: no socket leak.  Once the handler, the pumps and the watchers of an
\* accepted session have all returned, its client conn is closed, and its backend
\* conn is closed if the dial succeeded (there is none if it failed).
C33_NoSocketLeak ==
  \A s \in Sessions :
    (hpc[s] = "done" /\ SessionOver(s)) =>
      /\ conn[s]["client"] = "closed"
      /\ IF DialSucceeded(s) THEN conn[s]["backend"] = "closed"
         ELSE conn[s]["backend"] = "none"

\* a session that relayed is over after a pump left on an I/O error
C33_Witness ==
  \E s \in Sessions : \E d \in Dirs :
    /\ SessionOver(s) /\ DialSucceeded(s) /\ pExit[s][d] = "ioerr"
    /\ ConnsClosed(s)

IsPrefix(a, b) == Len(a) <= Len(b) /\ a = SubSeq(b, 1, Len(a))

\* C34: delivered bytes are always a prefix.  For each direction of each session,
\* the bytes written so far to the destination are a prefix of the bytes the
\* source has sent, and of the bytes the pump has read.
C34_DeliveredIsPrefix ==
  \A s \in Sessions : \A d \in Dirs :
    /\ IsPrefix(delivered[s][d], Payload(sent[s][d]))
    /\ Len(delivered[s][d]) <= taken[s][d]

\* a pump has returned after partial writes, with some but not all of the bytes
\* sent written to the destination
C34_Witness ==
  \E s \in Sessions : \E d \in Dirs :
    /\ ppc[s][d] = "done"
    /\ Len(delivered[s][d]) >= 2 /\ Len(delivered[s][d]) < sent[s][d]

\* C35: no byte is dropped by a pump.  When a pump returns from a Read that
\* reported end-of-stream or an error, every byte its Reads returned, the bytes
\* of that last Read included, has been written to the destination.
C35_NoByteDropped ==
  [][\A s \in Sessions : \A d \in Dirs :
       ReadFailureExit(s, d) => Len(delivered'[s][d]) = taken'[s][d]]_vars

\* session s was accepted after the root context was cancelled: its context was
\* cancelled from the start and its dial is pending
BornCancelled(s) == hpc[s] = "dial" /\ connCtx[s]

\* C36: a connection accepted during shutdown.  A conn that Accept returns after
\* the root context was cancelled gets a session context that is already
\* cancelled; the session has no backend conn, no pump and no buffer, it leaves
\* the dial only by the handler's return with the client conn closed, and the
\* handler does return.
C36_AcceptedDuringShutdown ==
  /\ [][\A s \in Sessions :
          /\ (hpc[s] = "idle" /\ hpc'[s] = "dial") => (connCtx'[s] <=> rootCtx)
          /\ (BornCancelled(s) /\ hpc'[s] # "dial") =>
               /\ hpc'[s] = "done" /\ SessionState(s)' = "Closed"
               /\ conn'[s]["client"] = "closed" /\ conn'[s]["backend"] = "none"
               /\ \A d \in Dirs : ppc'[s][d] = "idle" /\ wpc'[s][d] = "idle"
                                  /\ gets'[s][d] = 0 /\ buf'[s][d] = NoBuf]_vars
  /\ [](\A s \in Sessions :
          BornCancelled(s) =>
            /\ rootCtx /\ conn[s]["backend"] = "none"
            /\ \A d \in Dirs : ppc[s][d] = "idle" /\ gets[s][d] = 0)
  /\ \A s \in Sessions : BornCancelled(s) ~> (hpc[s] = "done")

\* Accept has returned a conn after the cancellation, before the listener watcher
\* closed the listener
C36_Witness ==
  \E s \in Sessions : BornCancelled(s) /\ listener = "open" /\ lwPc = "wait"
====
